---------------------------- MODULE Spec2Model ----------------------------
(***************************************************************************)
(* A model of datastore/basic.py: DictDatastore, KeyTransformDatastore,    *)
(* LowercaseKeyDatastore, NestedPathDatastore, DatastoreCollection,        *)
(* TieredDatastore and ShardedDatastore.                                   *)
(*                                                                         *)
(* Tier and shard indices are 0-based, as in the Python lists.             *)
(***************************************************************************)
EXTENDS Integers, Sequences, FiniteSets, TLC

VARIABLES
  stores,      \* DatastoreCollection._stores: index -> DictDatastore._items
  pre,         \* stores (under SpecCollection: lists) as they were when
               \* the last call began
  last,        \* the last call made, its arguments and result, and the
               \* calls it issued to child stores
  shardseen,   \* key -> the indices ShardedDatastore.shard returned for it
  written,     \* key -> the value of the latest put through the collection
               \* that no later delete undid (None when there is none)
  query,       \* the caller's Query object
  gen,         \* the frame of shard_query_generator
  queried,     \* the queries executed against shards, in order
  exhausted,   \* the counters of the shard cursors that ran dry, in order
  sorted,      \* what apply_order materialized and has not handed out yet
  out,         \* the items the caller has pulled from the returned cursor
  lists,       \* the Python list objects: list -> its elements, in order
  colls        \* DatastoreCollection instance -> the list its _stores names

kvvars == <<stores, pre, last, shardseen, written>>
qvars == <<query, gen, queried, exhausted, sorted, out>>
cvars == <<lists, colls>>
vars == <<stores, pre, last, shardseen, written,
          query, gen, queried, exhausted, sorted, out, lists, colls>>

(***************************************************************************)
(* Bounds of the model.                                                    *)
(***************************************************************************)
MaxStores == 3
MaxItems == 2
MaxOffset == 2
MaxLimit == 3
MaxDepth == 4
MaxLength == 10
MaxPath == 11

\* Python's None: the absence sentinel.
None == "None"

\* Keys, written as "namespace:name"; the two "a" keys share a collection.
Keys == {"a:x", "a:y", "b:z"}

\* The key used with the tiered store.
TierKeys == {"a:x"}

Values == {"v1", "v2"}

\* The keys used with the key-transforming store: case variants of one name,
\* and another name.
CaseKeys == {"hello", "HeLlO", "HELLO", "World"}

\* str(key.path): the namespace collection a key is stored in; keys without
\* a namespace share the root collection.
KeyPath(key) ==
  IF key \in {"a:x", "a:y"} THEN "/a" ELSE IF key = "b:z" THEN "/b" ELSE "/"

(***************************************************************************)
(* DictDatastore.  _items maps a collection name to a dict from keys to    *)
(* values; both are functions whose domain is the set of entries present.  *)
(***************************************************************************)
EmptyDict == [k \in {} |-> None]

\* _collection(key), the state it leaves: the collection is created on demand.
Collection(items, key) ==
  IF KeyPath(key) \in DOMAIN items
    THEN items
    ELSE [c \in DOMAIN items \cup {KeyPath(key)} |->
            IF c \in DOMAIN items THEN items[c] ELSE EmptyDict]

\* get: the value returned (KeyError becomes None).
DictGet(items, key) ==
  LET coll == Collection(items, key)[KeyPath(key)]
  IN  IF key \in DOMAIN coll THEN coll[key] ELSE None

\* delete: remove the key; drop the collection once it is empty; a missing
\* key raises KeyError after _collection has run, and the error is swallowed.
DictDelete(items, key) ==
  LET its  == Collection(items, key)
      c    == KeyPath(key)
      coll == its[c]
  IN  IF key \in DOMAIN coll
        THEN LET rest == [k \in DOMAIN coll \ {key} |-> coll[k]]
             IN  IF DOMAIN rest = {}
                   THEN [d \in DOMAIN its \ {c} |-> its[d]]
                   ELSE [its EXCEPT ![c] = rest]
        ELSE its

\* A put that stores whatever it is given, None included.
DictPutAnything(items, key, value) ==
  LET its == Collection(items, key)
      c   == KeyPath(key)
  IN  [its EXCEPT ![c] = [k \in DOMAIN its[c] \cup {key} |->
                            IF k = key THEN value ELSE its[c][k]]]

\* put: None means delete, anything else is stored.
DictPut(items, key, value) ==
  IF value = None
    THEN DictDelete(items, key)
    ELSE LET its == Collection(items, key)
             c   == KeyPath(key)
         IN  [its EXCEPT ![c] = [k \in DOMAIN its[c] \cup {key} |->
                                   IF k = key THEN value ELSE its[c][k]]]

\* contains: key in self._collection(key).
DictContains(items, key) == key \in DOMAIN Collection(items, key)[KeyPath(key)]

\* A new DictDatastore.
DictInit == [c \in {} |-> EmptyDict]


(***************************************************************************)
(* Query and generator state.                                              *)
(***************************************************************************)
\* str(query.key): the collection the queries of the model are about.  Its
\* dict is keyed 1..n, and values() lists it in that order.
QueryKey == "/q"

\* A Query as its caller builds it: the key, offset, limit (`limited` is
\* `limit is not None`) and whether it carries an order directive.  `obj`
\* tells the Query objects of one call apart: 0 is the caller's object.
Query(offset, limited, limit, order) ==
  [key |-> QueryKey, offset |-> offset, limited |-> limited, limit |-> limit,
   order |-> order, obj |-> 0]

\* query.copy(): a new object with the same fields.
QueryCopy(q) == [q EXCEPT !.obj = @ + 1]

\* The Query object q as its holder finds it after the object o was assigned
\* to: o when both are the same object.
Seen(q, o) == IF o.obj = q.obj THEN o ELSE q

\* The generator's frame: where it stands, the shard of the running loop
\* turn, shard_query (the argument `query` until the body has started), and
\* the shard cursor (how many of the shard's items it has consumed, its
\* skipped and returned counters).
Frame(pc, shard, q, pos, skipped, returned) ==
  [pc |-> pc, shard |-> shard, shard_query |-> q,
   pos |-> pos, skipped |-> skipped, returned |-> returned]

NoFrame == Frame("none", 0, Query(0, FALSE, 0, FALSE), 0, 0, 0)

\* No query has been made.
NoQuery ==
  /\ query = Query(0, FALSE, 0, FALSE)
  /\ gen = NoFrame
  /\ queried = <<>>
  /\ exhausted = <<>>
  /\ sorted = <<>>
  /\ out = <<>>

(***************************************************************************)
(* DatastoreCollection: the ordered child list.                            *)
(***************************************************************************)
\* The DatastoreCollection instances of the model, and the list objects:
\* "default" is the list that the default value of `stores` names, the list
\* named after an instance is the one built for that instance's constructor.
Instances == {"A", "B"}
ListIds == {"default"} \cup Instances

\* No collection has been constructed; every list is empty.
NoCollections ==
  /\ lists = [l \in ListIds |-> <<>>]
  /\ colls = [c \in Instances |-> None]

\* len(self._stores)
NumStores(sts) == Cardinality(DOMAIN sts)

\* One call issued to the child at index `store`.
Call(store, op, key, value) ==
  [store |-> store, op |-> op, key |-> key, value |-> value]

\* The record of one call on the collection: the operation and its
\* arguments, what it returned, whether it raised, and the child calls made.
\* `raises` is the index of the child whose put or delete was set to raise
\* during the call (the number of children when none was).
Outcome(op, key, value, ret, raises, raised, calls) ==
  [op |-> op, key |-> key, value |-> value, ret |-> ret,
   raises |-> raises, raised |-> raised, calls |-> calls]

NoCall == Outcome("none", None, None, None, 0, FALSE, <<>>)

(***************************************************************************)
(* TieredDatastore.                                                        *)
(***************************************************************************)
\* get, first loop: probe each store in order until one returns a value.
\* `store` is the loop variable as it stands when the loop ends.
RECURSIVE TieredGetProbe(_, _, _, _)
TieredGetProbe(sts, key, i, calls) ==
  IF i >= NumStores(sts)
    THEN [stores |-> sts, value |-> None, store |-> i - 1, calls |-> calls]
    ELSE LET value  == DictGet(sts[i], key)
             sts1   == [sts EXCEPT ![i] = Collection(@, key)]
             calls1 == Append(calls, Call(i, "get", key, None))
         IN  IF value # None
               THEN [stores |-> sts1, value |-> value, store |-> i,
                     calls |-> calls1]
               ELSE TieredGetProbe(sts1, key, i + 1, calls1)

\* A promotion loop that never meets the store that hit: it writes to all.
RECURSIVE TieredGetPromoteAll(_, _, _, _, _, _)
TieredGetPromoteAll(sts, key, value, store, j, calls) ==
  IF j >= NumStores(sts)
    THEN [stores |-> sts, calls |-> calls]
    ELSE TieredGetPromoteAll([sts EXCEPT ![j] = DictPut(@, key, value)],
                             key, value, store, j + 1,
                             Append(calls, Call(j, "put", key, value)))

\* get, second loop: put the value into the stores before the one that hit.
RECURSIVE TieredGetPromote(_, _, _, _, _, _)
TieredGetPromote(sts, key, value, store, j, calls) ==
  IF j >= NumStores(sts) \/ j = store
    THEN [stores |-> sts, calls |-> calls]
    ELSE TieredGetPromote([sts EXCEPT ![j] = DictPut(@, key, value)],
                          key, value, store, j + 1,
                          Append(calls, Call(j, "put", key, value)))

\* TieredDatastore.get
TieredGet(sts, key) ==
  LET probe == TieredGetProbe(sts, key, 0, <<>>)
  IN  IF probe.value # None
        THEN LET promo == TieredGetPromote(probe.stores, key, probe.value,
                                           probe.store, 0, probe.calls)
             IN  [stores |-> promo.stores, ret |-> probe.value,
                  calls |-> promo.calls]
        ELSE [stores |-> probe.stores, ret |-> None, calls |-> probe.calls]

\* A put that returns after the first store.
TieredPutFirstOnly(sts, key, value, raises, i, calls) ==
  IF i >= NumStores(sts)
    THEN [stores |-> sts, raised |-> FALSE, calls |-> calls]
    ELSE IF i = raises
      THEN [stores |-> sts, raised |-> TRUE,
            calls |-> Append(calls, Call(i, "put", key, value))]
      ELSE [stores |-> [sts EXCEPT ![i] = DictPut(@, key, value)],
            raised |-> FALSE,
            calls |-> Append(calls, Call(i, "put", key, value))]

\* TieredDatastore.put: every store in order.  `raises` is the index of the
\* store whose put raises (NumStores(sts) when none does); the exception
\* leaves the loop and the method.
RECURSIVE TieredPut(_, _, _, _, _, _)
TieredPut(sts, key, value, raises, i, calls) ==
  IF i >= NumStores(sts)
    THEN [stores |-> sts, raised |-> FALSE, calls |-> calls]
    ELSE IF i = raises
      THEN [stores |-> sts, raised |-> TRUE,
            calls |-> Append(calls, Call(i, "put", key, value))]
      ELSE TieredPut([sts EXCEPT ![i] = DictPut(@, key, value)], key, value,
                     raises, i + 1, Append(calls, Call(i, "put", key, value)))

\* A delete that catches the error of a store and goes on to the next.
RECURSIVE TieredDeleteSwallow(_, _, _, _, _)
TieredDeleteSwallow(sts, key, raises, i, calls) ==
  IF i >= NumStores(sts)
    THEN [stores |-> sts, raised |-> FALSE, calls |-> calls]
    ELSE IF i = raises
      THEN TieredDeleteSwallow(sts, key, raises, i + 1,
                               Append(calls, Call(i, "delete", key, None)))
      ELSE TieredDeleteSwallow([sts EXCEPT ![i] = DictDelete(@, key)], key,
                               raises, i + 1,
                               Append(calls, Call(i, "delete", key, None)))

\* A delete that returns after the first store.
TieredDeleteFirstOnly(sts, key, raises, i, calls) ==
  IF i >= NumStores(sts)
    THEN [stores |-> sts, raised |-> FALSE, calls |-> calls]
    ELSE IF i = raises
      THEN [stores |-> sts, raised |-> TRUE,
            calls |-> Append(calls, Call(i, "delete", key, None))]
      ELSE [stores |-> [sts EXCEPT ![i] = DictDelete(@, key)],
            raised |-> FALSE,
            calls |-> Append(calls, Call(i, "delete", key, None))]

\* TieredDatastore.delete: every store in order, with `raises` as for put.
RECURSIVE TieredDelete(_, _, _, _, _)
TieredDelete(sts, key, raises, i, calls) ==
  IF i >= NumStores(sts)
    THEN [stores |-> sts, raised |-> FALSE, calls |-> calls]
    ELSE IF i = raises
      THEN [stores |-> sts, raised |-> TRUE,
            calls |-> Append(calls, Call(i, "delete", key, None))]
      ELSE TieredDelete([sts EXCEPT ![i] = DictDelete(@, key)], key,
                        raises, i + 1, Append(calls, Call(i, "delete", key, None)))

\* contains as Datastore.contains has it: self.get(key) is not None.
TieredContainsByGet(sts, key, i, calls) ==
  LET r == TieredGet(sts, key)
  IN  [stores |-> r.stores, ret |-> r.ret # None, calls |-> r.calls]

\* TieredDatastore.contains: the first store that contains the key ends the loop.
RECURSIVE TieredContains(_, _, _, _)
TieredContains(sts, key, i, calls) ==
  IF i >= NumStores(sts)
    THEN [stores |-> sts, ret |-> FALSE, calls |-> calls]
    ELSE LET sts1   == [sts EXCEPT ![i] = Collection(@, key)]
             calls1 == Append(calls, Call(i, "contains", key, None))
         IN  IF DictContains(sts[i], key)
               THEN [stores |-> sts1, ret |-> TRUE, calls |-> calls1]
               ELSE TieredContains(sts1, key, i + 1, calls1)

(***************************************************************************)
(* The tiered store in use: calls on the TieredDatastore, and calls the    *)
(* owner of a tier makes on that tier directly.                            *)
(***************************************************************************)
InitTiered ==
  /\ \E n \in 1..MaxStores : stores = [i \in 0..(n - 1) |-> DictInit]
  /\ pre = stores
  /\ last = NoCall
  /\ shardseen = [k \in Keys |-> {}]
  /\ written = [k \in Keys |-> None]
  /\ NoQuery
  /\ NoCollections

TGet ==
  \E key \in TierKeys :
    LET r == TieredGet(stores, key)
    IN  /\ stores' = r.stores
        /\ pre' = stores
        /\ last' = Outcome("get", key, None, r.ret, NumStores(stores), FALSE, r.calls)
        /\ UNCHANGED <<shardseen, written, qvars, cvars>>

TPut ==
  \E key \in TierKeys, value \in Values \cup {None}, raises \in 0..NumStores(stores) :
    LET r == TieredPut(stores, key, value, raises, 0, <<>>)
    IN  /\ stores' = r.stores
        /\ pre' = stores
        /\ last' = Outcome("put", key, value, None, raises, r.raised, r.calls)
        /\ UNCHANGED <<shardseen, written, qvars, cvars>>

TDelete ==
  \E key \in TierKeys, raises \in 0..NumStores(stores) :
    LET r == TieredDelete(stores, key, raises, 0, <<>>)
    IN  /\ stores' = r.stores
        /\ pre' = stores
        /\ last' = Outcome("delete", key, None, None, raises, r.raised, r.calls)
        /\ UNCHANGED <<shardseen, written, qvars, cvars>>

TContains ==
  \E key \in TierKeys :
    LET r == TieredContains(stores, key, 0, <<>>)
    IN  /\ stores' = r.stores
        /\ pre' = stores
        /\ last' = Outcome("contains", key, None, r.ret, NumStores(stores), FALSE, r.calls)
        /\ UNCHANGED <<shardseen, written, qvars, cvars>>

\* The owner of the child store at index i puts into it directly.
DirectPut ==
  \E i \in DOMAIN stores, key \in TierKeys, value \in Values \cup {None} :
    /\ stores' = [stores EXCEPT ![i] = DictPut(@, key, value)]
    /\ pre' = stores'
    /\ last' = NoCall
    /\ UNCHANGED <<shardseen, written, qvars, cvars>>

NextTiered == TGet \/ TPut \/ TDelete \/ TContains \/ DirectPut

SpecTiered == InitTiered /\ [][NextTiered]_vars


(***************************************************************************)
(* ShardedDatastore: get, put, delete and contains.                        *)
(***************************************************************************)
\* self._shardingfn: a function from keys to integers (the default is hash,
\* whose results may be negative).
ShardingFn(key) ==
  CASE key = "a:x" -> 7
    [] key = "a:y" -> -3
    [] OTHER       -> 12

\* A shard index that shifts with the number of collections the shards hold.
ShardByLoad(sts, key) ==
  LET load == Cardinality({i \in DOMAIN sts : DOMAIN sts[i] # {}})
  IN  (ShardingFn(key) + load) % NumStores(sts)

\* shard: Python's % takes the sign of the divisor, as TLA+'s does.
Shard(sts, key) == ShardingFn(key) % NumStores(sts)

\* shardDatastore(key).get(key), and likewise put, delete and contains.
ShardedGet(sts, key) ==
  LET i == Shard(sts, key)
  IN  [stores |-> [sts EXCEPT ![i] = Collection(@, key)],
       ret |-> DictGet(sts[i], key), shard |-> i,
       calls |-> <<Call(i, "get", key, None)>>]

\* A put that writes through to every shard, as the tiered store does.
ShardedPutAll(sts, key, value) ==
  [stores |-> [i \in DOMAIN sts |-> DictPut(sts[i], key, value)],
   ret |-> None, shard |-> ShardingFn(key) % NumStores(sts),
   calls |-> <<Call(ShardingFn(key) % NumStores(sts), "put", key, value)>>]

ShardedPut(sts, key, value) ==
  LET i == Shard(sts, key)
  IN  [stores |-> [sts EXCEPT ![i] = DictPut(@, key, value)],
       ret |-> None, shard |-> i,
       calls |-> <<Call(i, "put", key, value)>>]

ShardedDelete(sts, key) ==
  LET i == Shard(sts, key)
  IN  [stores |-> [sts EXCEPT ![i] = DictDelete(@, key)],
       ret |-> None, shard |-> i,
       calls |-> <<Call(i, "delete", key, None)>>]

ShardedContains(sts, key) ==
  LET i == Shard(sts, key)
  IN  [stores |-> [sts EXCEPT ![i] = Collection(@, key)],
       ret |-> DictContains(sts[i], key), shard |-> i,
       calls |-> <<Call(i, "contains", key, None)>>]

(***************************************************************************)
(* The sharded store in use: a fixed list of shards that start empty and   *)
(* are reached only through the ShardedDatastore.                          *)
(***************************************************************************)
InitSharded ==
  /\ \E n \in 1..MaxStores : stores = [i \in 0..(n - 1) |-> DictInit]
  /\ pre = stores
  /\ last = NoCall
  /\ shardseen = [k \in Keys |-> {}]
  /\ written = [k \in Keys |-> None]
  /\ NoQuery
  /\ NoCollections

\* What every sharded call leaves behind.
ShardedStep(op, key, value, r) ==
  /\ stores' = r.stores
  /\ pre' = stores
  /\ last' = Outcome(op, key, value, r.ret, NumStores(stores), FALSE, r.calls)
  /\ shardseen' = [shardseen EXCEPT ![key] = @ \cup {r.shard}]

SGet ==
  \E key \in Keys :
    /\ ShardedStep("get", key, None, ShardedGet(stores, key))
    /\ UNCHANGED <<written, qvars, cvars>>

SPut ==
  \E key \in Keys, value \in Values \cup {None} :
    /\ ShardedStep("put", key, value, ShardedPut(stores, key, value))
    /\ written' = [written EXCEPT ![key] = value]
    /\ UNCHANGED <<qvars, cvars>>

SDelete ==
  \E key \in Keys :
    /\ ShardedStep("delete", key, None, ShardedDelete(stores, key))
    /\ written' = [written EXCEPT ![key] = None]
    /\ UNCHANGED <<qvars, cvars>>

SContains ==
  \E key \in Keys :
    /\ ShardedStep("contains", key, None, ShardedContains(stores, key))
    /\ UNCHANGED <<written, qvars, cvars>>

NextSharded == SGet \/ SPut \/ SDelete \/ SContains

SpecSharded == InitSharded /\ [][NextSharded]_vars


(***************************************************************************)
(* ShardedDatastore.query.                                                 *)
(***************************************************************************)
Max(a, b) == IF a >= b THEN a ELSE b
Min(a, b) == IF a <= b THEN a ELSE b
MinOf(S) == CHOOSE x \in S : \A y \in S : x <= y

\* DictDatastore.query: the values of the collection named by the query's
\* key, or nothing when there is no such collection.
DictQuery(items, key) ==
  IF key \in DOMAIN items
    THEN [j \in 1..Cardinality(DOMAIN items[key]) |-> items[key][j]]
    ELSE <<>>

\* next() on the Cursor of one shard over `items`, for query q; c holds the
\* cursor's position and counters.  The first offset items are skipped
\* (counted in skipped), then up to limit items are handed out (counted in
\* returned).
CursorNext(items, q, c) ==
  LET skip     == Max(Min(q.offset - c.skipped, Len(items) - c.pos), 0)
      pos1     == c.pos + skip
      skipped1 == c.skipped + skip
  IN  IF (q.limited /\ c.returned >= q.limit) \/ pos1 >= Len(items)
        THEN [stop |-> TRUE, item |-> 0, pos |-> pos1,
              skipped |-> skipped1, returned |-> c.returned]
        ELSE [stop |-> FALSE, item |-> items[pos1 + 1], pos |-> pos1 + 1,
              skipped |-> skipped1, returned |-> c.returned + 1]

\* A shard query as recorded in `queried`, and a dry cursor in `exhausted`.
Queried(shard, q) ==
  [shard |-> shard, key |-> q.key, offset |-> q.offset, limited |-> q.limited,
   limit |-> q.limit]
Exhausted(shard, c) ==
  [shard |-> shard, skipped |-> c.skipped, returned |-> c.returned]

\* What one next() of the generator gives: the new frame and logs, and the
\* item yielded unless the generator returned (stop).
GenResult(g, qd, ex, stop, item) ==
  [gen |-> g, queried |-> qd, exhausted |-> ex, stop |-> stop, item |-> item]

RECURSIVE GenLoop(_, _, _, _)
RECURSIVE GenIterate(_, _, _, _)

\* `for shard in self._stores`, at the turn for index g.shard: query the
\* shard with shard_query and iterate its cursor.
GenLoop(g, sts, qd, ex) ==
  IF g.shard >= NumStores(sts)
    THEN GenResult([g EXCEPT !.pc = "done"], qd, ex, TRUE, 0)
    ELSE GenIterate(g, sts, Append(qd, Queried(g.shard, g.shard_query)), ex)

\* The generator with shard_query's limit never reduced.
GenIterateKeepLimit(g, sts, qd, ex) ==
  LET q == g.shard_query
      c == CursorNext(DictQuery(sts[g.shard], q.key), q, g)
  IN  IF ~c.stop
        THEN GenResult(Frame("yielded", g.shard, q, c.pos, c.skipped, c.returned),
                       qd, ex, FALSE, c.item)
        ELSE GenLoop(Frame("loop", g.shard + 1,
                           [q EXCEPT !.offset = Max(q.offset - c.skipped, 0)],
                           0, 0, 0),
                     sts, qd, Append(ex, Exhausted(g.shard, c)))

\* The generator with the two counters the wrong way round: the offset
\* reduced by returned, the limit by skipped.
GenIterateSwapped(g, sts, qd, ex) ==
  LET q == g.shard_query
      c == CursorNext(DictQuery(sts[g.shard], q.key), q, g)
  IN  IF ~c.stop
        THEN GenResult(Frame("yielded", g.shard, q, c.pos, c.skipped, c.returned),
                       qd, ex, FALSE, c.item)
        ELSE LET offset1 == Max(q.offset - c.returned, 0)
                 truthy  == q.limited /\ q.limit # 0
                 limit1  == IF truthy THEN Max(q.limit - c.skipped, 0)
                                      ELSE q.limit
                 q1      == [q EXCEPT !.offset = offset1, !.limit = limit1]
                 ex1     == Append(ex, Exhausted(g.shard, c))
             IN  IF truthy /\ limit1 <= 0
                   THEN GenResult(Frame("done", g.shard, q1, c.pos, c.skipped,
                                        c.returned), qd, ex1, TRUE, 0)
                   ELSE GenLoop(Frame("loop", g.shard + 1, q1, 0, 0, 0),
                                sts, qd, ex1)

\* The generator with shard_query's offset never reduced.
GenIterateKeepOffset(g, sts, qd, ex) ==
  LET q == g.shard_query
      c == CursorNext(DictQuery(sts[g.shard], q.key), q, g)
  IN  IF ~c.stop
        THEN GenResult(Frame("yielded", g.shard, q, c.pos, c.skipped, c.returned),
                       qd, ex, FALSE, c.item)
        ELSE LET truthy  == q.limited /\ q.limit # 0
                 limit1  == IF truthy THEN Max(q.limit - c.returned, 0)
                                      ELSE q.limit
                 q1      == [q EXCEPT !.limit = limit1]
                 ex1     == Append(ex, Exhausted(g.shard, c))
             IN  IF truthy /\ limit1 <= 0
                   THEN GenResult(Frame("done", g.shard, q1, c.pos, c.skipped,
                                        c.returned), qd, ex1, TRUE, 0)
                   ELSE GenLoop(Frame("loop", g.shard + 1, q1, 0, 0, 0),
                                sts, qd, ex1)

\* `for item in cursor: yield item`, then the update of shard_query once the
\* cursor has run dry.  `if shard_query.limit:` is false for None and for 0.
GenIterate(g, sts, qd, ex) ==
  LET q == g.shard_query
      c == CursorNext(DictQuery(sts[g.shard], q.key), q, g)
  IN  IF ~c.stop
        THEN GenResult(Frame("yielded", g.shard, q, c.pos, c.skipped, c.returned),
                       qd, ex, FALSE, c.item)
        ELSE LET offset1 == Max(q.offset - c.skipped, 0)
                 truthy  == q.limited /\ q.limit # 0
                 limit1  == IF truthy THEN Max(q.limit - c.returned, 0)
                                      ELSE q.limit
                 q1      == [q EXCEPT !.offset = offset1, !.limit = limit1]
                 ex1     == Append(ex, Exhausted(g.shard, c))
             IN  IF truthy /\ limit1 <= 0
                   THEN GenResult(Frame("done", g.shard, q1, c.pos, c.skipped,
                                        c.returned), qd, ex1, TRUE, 0)
                   ELSE GenLoop(Frame("loop", g.shard + 1, q1, 0, 0, 0),
                                sts, qd, ex1)

\* The generator with shard_query = query: no copy is made.
GenNextNoCopy(g, q, sts, qd, ex) ==
  IF g.pc = "created"
    THEN GenLoop(Frame("loop", 0, q, 0, 0, 0), sts, qd, ex)
    ELSE IF g.pc = "yielded"
      THEN GenIterate(g, sts, qd, ex)
      ELSE GenResult(g, qd, ex, TRUE, 0)

\* next() on the generator, called with query q.  Its body, from
\* shard_query = query.copy() on, runs only when the first item is asked for.
GenNext(g, q, sts, qd, ex) ==
  IF g.pc = "created"
    THEN GenLoop(Frame("loop", 0, QueryCopy(q), 0, 0, 0), sts, qd, ex)
    ELSE IF g.pc = "yielded"
      THEN GenIterate(g, sts, qd, ex)
      ELSE GenResult(g, qd, ex, TRUE, 0)

\* The generator run until it returns; `items` collects what it yields.
RECURSIVE GenDrain(_, _, _, _, _, _)
GenDrain(g, q, sts, qd, ex, items) ==
  LET r == GenNext(g, q, sts, qd, ex)
  IN  IF r.stop
        THEN [gen |-> r.gen, queried |-> r.queried, exhausted |-> r.exhausted,
              items |-> items]
        ELSE GenDrain(r.gen, q, sts, r.queried, r.exhausted,
                      Append(items, r.item))

\* Cursor(query, iterable) over the generator: nothing has run yet.
NewCursor(q) ==
  [gen |-> Frame("created", 0, q, 0, 0, 0), queried |-> <<>>,
   exhausted |-> <<>>, sorted |-> <<>>]

\* Cursor.apply_order: with an order directive the cursor's iterable is
\* consumed and its items sorted; without one nothing happens.
ApplyOrder(q, sts, cursor) ==
  IF q.order
    THEN LET d == GenDrain(cursor.gen, q, sts, cursor.queried,
                           cursor.exhausted, <<>>)
         IN  [gen |-> d.gen, queried |-> d.queried, exhausted |-> d.exhausted,
              sorted |-> SortSeq(d.items, LAMBDA a, b : a < b)]
    ELSE cursor

\* A query that builds its cursor over list(generator): every shard is
\* queried at once.
ShardedQueryEager(q, sts) ==
  LET d == GenDrain(NewCursor(q).gen, q, sts, <<>>, <<>>, <<>>)
  IN  [gen |-> d.gen, queried |-> d.queried, exhausted |-> d.exhausted,
       sorted |-> IF q.order THEN SortSeq(d.items, LAMBDA a, b : a < b)
                             ELSE d.items]

\* A query that returns its cursor without calling apply_order.
ShardedQueryUnordered(q, sts) == NewCursor(q)

\* ShardedDatastore.query: the cursor over the generator, after apply_order.
ShardedQuery(q, sts) == ApplyOrder(q, sts, NewCursor(q))

(***************************************************************************)
(* KeyTransformDatastore and LowercaseKeyDatastore.  The child is the      *)
(* store at index 0 for get, put, delete and contains, and the sharded     *)
(* store over `sts` for query.                                             *)
(***************************************************************************)
\* lowercaseKey: Key(str(key).lower()), on the keys of the model.
LowercaseKey(key) ==
  CASE key \in {"HeLlO", "HELLO"} -> "hello"
    [] key = "World" -> "world"
    [] key = "/Q" -> "/q"
    [] OTHER -> key

\* A transform that hands every key back as it came.
KeyTransformNone(key) == key

\* _transform(key) with keytransform = lowercaseKey.
KeyTransform(key) == LowercaseKey(key)

KeyTransformGet(sts, key) ==
  LET k == KeyTransform(key)
  IN  [stores |-> [sts EXCEPT ![0] = Collection(@, k)],
       ret |-> DictGet(sts[0], k),
       calls |-> <<Call(0, "get", k, None)>>]

KeyTransformPut(sts, key, value) ==
  LET k == KeyTransform(key)
  IN  [stores |-> [sts EXCEPT ![0] = DictPut(@, k, value)],
       ret |-> None,
       calls |-> <<Call(0, "put", k, value)>>]

KeyTransformDelete(sts, key) ==
  LET k == KeyTransform(key)
  IN  [stores |-> [sts EXCEPT ![0] = DictDelete(@, k)],
       ret |-> None,
       calls |-> <<Call(0, "delete", k, None)>>]

KeyTransformContains(sts, key) ==
  LET k == KeyTransform(key)
  IN  [stores |-> [sts EXCEPT ![0] = Collection(@, k)],
       ret |-> DictContains(sts[0], k),
       calls |-> <<Call(0, "contains", k, None)>>]

\* query: the copy gets the transformed key and goes to the child; `cursor`
\* is what the child returns, `caller` the caller's Query object after the
\* call.
KeyTransformQuery(q, sts) ==
  LET copy == QueryCopy(q)
      fwd  == [copy EXCEPT !.key = KeyTransform(@)]
  IN  [cursor |-> ShardedQuery(fwd, sts), caller |-> Seen(q, fwd)]

(***************************************************************************)
(* The lowercasing store in use over a DictDatastore that starts empty and *)
(* is written only through the wrapper.                                    *)
(***************************************************************************)
InitTransform ==
  /\ stores = [i \in {0} |-> DictInit]
  /\ pre = stores
  /\ last = NoCall
  /\ shardseen = [k \in Keys |-> {}]
  /\ written = [k \in {LowercaseKey(x) : x \in CaseKeys} |-> None]
  /\ NoQuery
  /\ NoCollections

\* What every call on the wrapper leaves behind.
TransformStep(op, key, value, r) ==
  /\ stores' = r.stores
  /\ pre' = stores
  /\ last' = Outcome(op, key, value, r.ret, 1, FALSE, r.calls)
  /\ UNCHANGED <<shardseen, qvars, cvars>>

KGet ==
  \E key \in CaseKeys :
    /\ TransformStep("get", key, None, KeyTransformGet(stores, key))
    /\ UNCHANGED written

KPut ==
  \E key \in CaseKeys, value \in Values \cup {None} :
    /\ TransformStep("put", key, value, KeyTransformPut(stores, key, value))
    /\ written' = [written EXCEPT ![LowercaseKey(key)] = value]

KDelete ==
  \E key \in CaseKeys :
    /\ TransformStep("delete", key, None, KeyTransformDelete(stores, key))
    /\ written' = [written EXCEPT ![LowercaseKey(key)] = None]

KContains ==
  \E key \in CaseKeys :
    /\ TransformStep("contains", key, None, KeyTransformContains(stores, key))
    /\ UNCHANGED written

\* get on the child itself, past the wrapper.
ChildGet ==
  \E key \in CaseKeys :
    /\ stores' = [stores EXCEPT ![0] = Collection(@, key)]
    /\ pre' = stores
    /\ last' = Outcome("child.get", key, None, DictGet(stores[0], key), 1, FALSE,
                       <<Call(0, "get", key, None)>>)
    /\ UNCHANGED <<shardseen, written, qvars, cvars>>

NextTransform == KGet \/ KPut \/ KDelete \/ KContains \/ ChildGet

SpecTransform == InitTransform /\ [][NextTransform]_vars


(***************************************************************************)
(* A query on the sharded store: the shards hold their items, the caller   *)
(* calls query once, on the sharded store or on a lowercasing store        *)
(* wrapped around it, and pulls items from the returned cursor.            *)
(***************************************************************************)
\* The j-th item of shard s: the shards' values interleave.
ItemAt(s, j) == 10 * j + s

InitQuery ==
  /\ \E n \in 1..MaxStores :
       \E cnt \in [0..(n - 1) -> 0..MaxItems] :
         stores = [s \in 0..(n - 1) |->
                     IF cnt[s] = 0
                       THEN DictInit
                       ELSE [c \in {QueryKey} |->
                               [j \in 1..cnt[s] |-> ItemAt(s, j)]]]
  /\ pre = stores
  /\ last = NoCall
  /\ shardseen = [k \in Keys |-> {}]
  /\ written = [k \in Keys |-> None]
  /\ NoQuery
  /\ NoCollections

\* What a query call leaves behind: q is the Query it was called with,
\* `caller` that object after the call, `cursor` the cursor returned.
QueryStep(op, q, caller, cursor) ==
  /\ query' = Seen(caller, cursor.gen.shard_query)
  /\ gen' = cursor.gen
  /\ queried' = cursor.queried
  /\ exhausted' = cursor.exhausted
  /\ sorted' = cursor.sorted
  /\ last' = Outcome(op, q.key, q, None, NumStores(stores), FALSE, <<>>)
  /\ UNCHANGED <<stores, pre, shardseen, written, cvars, out>>

\* The same for a call through the key-transforming store.
TransformedQueryStep(op, q, r) == QueryStep(op, q, r.caller, r.cursor)

\* ShardedDatastore.query(query)
QCall ==
  /\ gen.pc = "none"
  /\ \E offset \in 0..MaxOffset, limited \in BOOLEAN, limit \in 0..MaxLimit,
        order \in BOOLEAN :
       /\ limited \/ limit = 0
       /\ LET q == Query(offset, limited, limit, order)
          IN  QueryStep("query", q, q, ShardedQuery(q, stores))

\* LowercaseKeyDatastore(sharded).query(query), the key in upper case.
KQCall ==
  /\ gen.pc = "none"
  /\ \E offset \in 0..MaxOffset, limited \in BOOLEAN, limit \in 0..MaxLimit,
        order \in BOOLEAN :
       /\ limited \/ limit = 0
       /\ LET q == [Query(offset, limited, limit, order) EXCEPT !.key = "/Q"]
          IN  TransformedQueryStep("lowercase.query", q,
                                   KeyTransformQuery(q, stores))

\* What one next() of the generator leaves behind.
PullStep(r) ==
  /\ gen' = r.gen
  /\ queried' = r.queried
  /\ exhausted' = r.exhausted
  /\ out' = IF r.stop THEN out ELSE Append(out, r.item)
  /\ query' = Seen(query, r.gen.shard_query)

\* next() on the cursor that query returned.
QPull ==
  /\ gen.pc # "none"
  /\ IF query.order
       THEN /\ sorted # <<>>
            /\ out' = Append(out, Head(sorted))
            /\ sorted' = Tail(sorted)
            /\ UNCHANGED <<gen, queried, exhausted, query>>
       ELSE /\ gen.pc \in {"created", "yielded"}
            /\ PullStep(GenNext(gen, gen.shard_query, stores, queried,
                                exhausted))
            /\ UNCHANGED sorted
  /\ UNCHANGED <<kvvars, cvars>>

NextQuery == QCall \/ KQCall \/ QPull

SpecQuery == InitQuery /\ [][NextQuery]_vars


(***************************************************************************)
(* TieredDatastore.query.                                                  *)
(***************************************************************************)
\* A cursor consumed to its end: the items it hands out, after `acc`.
RECURSIVE CursorDrain(_, _, _, _)
CursorDrain(items, q, c, acc) ==
  LET n == CursorNext(items, q, c)
  IN  IF n.stop THEN acc ELSE CursorDrain(items, q, n, Append(acc, n.item))

\* query(iterable), the returned cursor consumed: the order directive is
\* applied first, then the offset and the limit.
QueryCall(q, items) ==
  CursorDrain(IF q.order THEN SortSeq(items, LAMBDA a, b : a < b) ELSE items,
              q, [pos |-> 0, skipped |-> 0, returned |-> 0], <<>>)

\* A query answered by the first tier.
TieredQueryFirst(sts, q) ==
  [stores |-> sts,
   ret |-> QueryCall(q, DictQuery(sts[0], q.key)),
   calls |-> <<Call(0, "query", q.key, None)>>]

\* query: self._stores[-1].query(query)
TieredQuery(sts, q) ==
  LET i == NumStores(sts) - 1
  IN  [stores |-> sts,
       ret |-> QueryCall(q, DictQuery(sts[i], q.key)),
       calls |-> <<Call(i, "query", q.key, None)>>]

(***************************************************************************)
(* Queries on a tiered store whose tiers hold items of their own: `ret` of *)
(* the call is what the returned cursor hands out when consumed.           *)
(***************************************************************************)
TQuery ==
  \E offset \in 0..MaxOffset, limited \in BOOLEAN, limit \in 0..MaxLimit,
     order \in BOOLEAN :
    /\ limited \/ limit = 0
    /\ LET q == Query(offset, limited, limit, order)
           r == TieredQuery(stores, q)
       IN  /\ stores' = r.stores
           /\ pre' = stores
           /\ last' = Outcome("query", q.key, q, r.ret, NumStores(stores), FALSE,
                              r.calls)
    /\ UNCHANGED <<shardseen, written, qvars, cvars>>

NextTieredQuery == TQuery

SpecTieredQuery == InitQuery /\ [][NextTieredQuery]_vars


(***************************************************************************)
(* A tiered store over DictDatastores that start with the same contents    *)
(* and are reached only through the TieredDatastore; no tier raises.       *)
(***************************************************************************)
\* The contents every tier starts with: cnt items under the query key and,
\* when `held`, a value under one key.
StartItems(cnt, held) ==
  LET base == IF cnt = 0
                THEN DictInit
                ELSE [c \in {QueryKey} |-> [j \in 1..cnt |-> ItemAt(0, j)]]
  IN  IF held THEN DictPut(base, "a:x", "v1") ELSE base

InitAgreement ==
  /\ \E n \in 1..MaxStores, cnt \in 0..MaxItems, held \in BOOLEAN :
       stores = [i \in 0..(n - 1) |-> StartItems(cnt, held)]
  /\ pre = stores
  /\ last = NoCall
  /\ shardseen = [k \in Keys |-> {}]
  /\ written = [k \in Keys |-> None]
  /\ NoQuery
  /\ NoCollections

\* What every call on the tiered store leaves behind.
AgreementStep(op, key, value, ret, r) ==
  /\ stores' = r.stores
  /\ pre' = stores
  /\ last' = Outcome(op, key, value, ret, NumStores(stores), FALSE, r.calls)
  /\ UNCHANGED <<shardseen, written, qvars, cvars>>

AGet ==
  \E key \in Keys :
    LET r == TieredGet(stores, key)
    IN  AgreementStep("get", key, None, r.ret, r)

APut ==
  \E key \in Keys, value \in Values \cup {None} :
    AgreementStep("put", key, value, None,
                  TieredPut(stores, key, value, NumStores(stores), 0, <<>>))

ADelete ==
  \E key \in Keys :
    AgreementStep("delete", key, None, None,
                  TieredDelete(stores, key, NumStores(stores), 0, <<>>))

AContains ==
  \E key \in Keys :
    LET r == TieredContains(stores, key, 0, <<>>)
    IN  AgreementStep("contains", key, None, r.ret, r)

AQuery ==
  \E offset \in 0..MaxOffset, order \in BOOLEAN :
    LET q == Query(offset, FALSE, 0, order)
        r == TieredQuery(stores, q)
    IN  AgreementStep("query", q.key, q, r.ret, r)

NextAgreement == AGet \/ APut \/ ADelete \/ AContains \/ AQuery

SpecAgreement == InitAgreement /\ [][NextAgreement]_vars


(***************************************************************************)
(* DatastoreCollection: construction and the mutation of the child list.   *)
(***************************************************************************)
\* The objects handed to a collection: two Datastore instances and an
\* object of another type.
Datastores == {"d1", "d2"}
Objects == Datastores \cup {"x"}

\* isinstance(store, Datastore)
IsDatastore(store) == store \in Datastores

\* The `stores` argument of the constructor: left out, or an iterable with
\* the given elements.
StoresArg(given, elements) == [given |-> given, elements |-> elements]

\* What a call does to the lists and the instances, and whether it raised.
Mutation(ls, cs, raised) == [lists |-> ls, colls |-> cs, raised |-> raised]

\* __init__(stores): without the argument `stores` is the default list;
\* otherwise it is the list passed in, or list(stores), a list that belongs
\* to this call.  Every element is checked before _stores is assigned.
CollectionInit(ls, cs, inst, arg) ==
  LET id       == IF arg.given THEN inst ELSE "default"
      elements == IF arg.given THEN arg.elements ELSE ls["default"]
  IN  IF \E j \in DOMAIN elements : ~IsDatastore(elements[j])
        THEN Mutation(ls, cs, TRUE)
        ELSE Mutation([ls EXCEPT ![id] = elements], [cs EXCEPT ![inst] = id],
                      FALSE)

\* An append without the isinstance check.
AppendDatastoreUnchecked(ls, cs, inst, store) ==
  Mutation([ls EXCEPT ![cs[inst]] = Append(@, store)], cs, FALSE)

\* appendDatastore(store)
AppendDatastore(ls, cs, inst, store) ==
  IF ~IsDatastore(store)
    THEN Mutation(ls, cs, TRUE)
    ELSE Mutation([ls EXCEPT ![cs[inst]] = Append(@, store)], cs, FALSE)

\* list.insert(index, store): the index is taken from the end when it is
\* negative, and brought into 0..len.
ListInsert(list, index, store) ==
  LET at == IF index < 0 THEN Max(Len(list) + index, 0)
                         ELSE Min(index, Len(list))
  IN  SubSeq(list, 1, at) \o <<store>> \o SubSeq(list, at + 1, Len(list))

\* insertDatastore(index, store)
InsertDatastore(ls, cs, inst, index, store) ==
  IF ~IsDatastore(store)
    THEN Mutation(ls, cs, TRUE)
    ELSE Mutation([ls EXCEPT ![cs[inst]] = ListInsert(@, index, store)], cs,
                  FALSE)

\* removeDatastore(store): list.remove takes out the first occurrence and
\* raises ValueError when there is none.
RemoveDatastore(ls, cs, inst, store) ==
  LET list == ls[cs[inst]]
      hits == {j \in DOMAIN list : list[j] = store}
  IN  IF hits = {}
        THEN Mutation(ls, cs, TRUE)
        ELSE LET j == MinOf(hits)
             IN  Mutation([ls EXCEPT ![cs[inst]] =
                             SubSeq(list, 1, j - 1) \o
                             SubSeq(list, j + 1, Len(list))],
                          cs, FALSE)

(***************************************************************************)
(* Collections in use: two instances are constructed and their child lists *)
(* changed.  `pre` holds the lists as they were when the last call began.  *)
(***************************************************************************)
\* The number of elements over all lists.
ListLoad(ls) == Len(ls["default"]) + Len(ls["A"]) + Len(ls["B"])

InitCollection ==
  /\ NoCollections
  /\ stores = [i \in {0} |-> DictInit]
  /\ pre = lists
  /\ last = NoCall
  /\ shardseen = [k \in Keys |-> {}]
  /\ written = [k \in Keys |-> None]
  /\ NoQuery

\* What every call on a collection leaves behind.
CollectionStep(op, inst, args, r) ==
  /\ lists' = r.lists
  /\ colls' = r.colls
  /\ pre' = lists
  /\ last' = Outcome(op, inst, args, None, 0, r.raised, <<>>)
  /\ UNCHANGED <<stores, shardseen, written, qvars>>

CInit ==
  \E inst \in Instances, given \in BOOLEAN, n \in 0..MaxItems :
    \E elements \in [1..n -> Objects] :
      /\ colls[inst] = None
      /\ given \/ n = 0
      /\ ListLoad(lists) + n <= MaxStores
      /\ CollectionStep("__init__", inst, StoresArg(given, elements),
                        CollectionInit(lists, colls, inst,
                                       StoresArg(given, elements)))

CAppend ==
  \E inst \in Instances, store \in Objects :
    /\ colls[inst] # None
    /\ ListLoad(lists) < MaxStores
    /\ CollectionStep("appendDatastore", inst, <<store>>,
                      AppendDatastore(lists, colls, inst, store))

CInsert ==
  \E inst \in Instances, index \in (-1)..MaxStores, store \in Objects :
    /\ colls[inst] # None
    /\ ListLoad(lists) < MaxStores
    /\ CollectionStep("insertDatastore", inst, <<index, store>>,
                      InsertDatastore(lists, colls, inst, index, store))

CRemove ==
  \E inst \in Instances, store \in Objects :
    /\ colls[inst] # None
    /\ CollectionStep("removeDatastore", inst, <<store>>,
                      RemoveDatastore(lists, colls, inst, store))

NextCollection == CInit \/ CAppend \/ CInsert \/ CRemove

SpecCollection == InitCollection /\ [][NextCollection]_vars

(***************************************************************************)
(* NestedPathDatastore.  A string is the sequence of its characters.       *)
(***************************************************************************)
Letters == <<"a", "b", "c", "d", "e", "f", "g", "h", "i", "j", "k", "l", "m">>

\* 'abcdefghijk' cut after n characters.
Text(n) == SubSeq(Letters, 1, n)

\* [path[n:n+length] for n in xrange(0, len(path), length)]
Components(path, length) ==
  [i \in 1..((Len(path) + length - 1) \div length) |->
     SubSeq(path, (i - 1) * length + 1, Min(i * length, Len(path)))]

\* '/'.join(components)
RECURSIVE Join(_)
Join(components) ==
  IF components = <<>>
    THEN <<>>
    ELSE IF Len(components) = 1
      THEN Head(components)
      ELSE Head(components) \o <<"/">> \o Join(Tail(components))

\* nestedPath without components[:depth].
NestedPathUncut(path, depth, length) == Join(Components(path, length))

\* nestedPath(path, depth, length)
NestedPath(path, depth, length) ==
  LET components == Components(path, length)
  IN  Join(SubSeq(components, 1, Min(depth, Len(components))))

\* nest * mult
RECURSIVE Repeat(_, _)
Repeat(nest, mult) ==
  IF mult <= 0 THEN <<>> ELSE nest \o Repeat(nest, mult - 1)

\* Key(path).child(key), for a key that is its name: '/' path '/' name.
KeyChild(path, name) == <<"/">> \o path \o <<"/">> \o name

\* nestKey with the name taken once, whatever its length.
NestKeyUnpadded(name, depth, length) ==
  KeyChild(NestedPath(name, depth, length), name)

\* nestKey(key) for a key whose name is `name`, with nest_depth = depth and
\* nest_length = length; `/` on two ints is the floor division.
NestKey(name, depth, length) ==
  LET mult == 1 + ((depth * length) \div Len(name))
      nest == Repeat(name, mult)
  IN  KeyChild(NestedPath(nest, depth, length), name)

(***************************************************************************)
(* nestedPath and nestKey applied to inputs drawn at the start.            *)
(***************************************************************************)
InitNested ==
  /\ \E n \in 0..MaxPath, depth \in 1..MaxDepth, length \in 1..MaxLength :
       last = Outcome("input", Text(n), <<depth, length>>, None, 0, FALSE, <<>>)
  /\ stores = [i \in {0} |-> DictInit]
  /\ pre = stores
  /\ shardseen = [k \in Keys |-> {}]
  /\ written = [k \in Keys |-> None]
  /\ NoQuery
  /\ NoCollections

NestedPathCall ==
  /\ last.op = "input"
  /\ last' = [last EXCEPT !.op = "nestedPath",
                          !.ret = NestedPath(last.key, last.value[1],
                                             last.value[2])]
  /\ UNCHANGED <<stores, pre, shardseen, written, qvars, cvars>>

NestKeyCall ==
  /\ last.op = "input"
  /\ last.key # <<>>
  /\ last' = [last EXCEPT !.op = "nestKey",
                          !.ret = NestKey(last.key, last.value[1],
                                          last.value[2])]
  /\ UNCHANGED <<stores, pre, shardseen, written, qvars, cvars>>

NextNested == NestedPathCall \/ NestKeyCall

SpecNested == InitNested /\ [][NextNested]_vars

(***************************************************************************)
(* Properties of TieredDatastore, checked under SpecTiered.                *)
(***************************************************************************)
\* What a store reports for every key.
Content(items) == [k \in Keys |-> DictGet(items, k)]

\* The child calls of the last collection call that are `op` calls.
CallsOf(op) == SelectSeq(last.calls, LAMBDA c : c.op = op)

\* `op` called on the children 0..(m - 1), in order.
InOrder(m, op, key, value) == [j \in 1..m |-> Call(j - 1, op, key, value)]

\* C1: TieredDatastore.get probes the tiers in order and returns the value of
\* the first tier i that holds the key; it puts that value into the tiers
\* 0..i-1, which then hold it, and into no other tier: the tiers from i on are
\* left as they were, and a get that hits tier 0 or misses everywhere puts
\* nothing anywhere.
C1_TieredGetPromotes ==
  last.op = "get" =>
    LET key  == last.key
        n    == NumStores(pre)
        hits == {i \in DOMAIN pre : DictGet(pre[i], key) # None}
    IN  IF hits = {}
          THEN /\ last.ret = None
               /\ last.calls = InOrder(n, "get", key, None)
               /\ \A j \in DOMAIN stores : Content(stores[j]) = Content(pre[j])
          ELSE LET i == MinOf(hits)
               IN  /\ last.ret = DictGet(pre[i], key)
                   /\ CallsOf("get") = InOrder(i + 1, "get", key, None)
                   /\ CallsOf("put") = InOrder(i, "put", key, last.ret)
                   /\ last.calls = CallsOf("get") \o CallsOf("put")
                   /\ \A j \in 0..(i - 1) :
                        /\ DictContains(stores[j], key)
                        /\ DictGet(stores[j], key) = last.ret
                   /\ \A j \in i..(n - 1) : stores[j] = pre[j]

\* A get that found the key only in the third of three tiers.
C1_Witness ==
  /\ last.op = "get"
  /\ NumStores(pre) = 3
  /\ DictGet(pre[0], last.key) = None
  /\ DictGet(pre[1], last.key) = None
  /\ last.ret # None
  /\ DictGet(stores[0], last.key) = last.ret
  /\ DictGet(stores[1], last.key) = last.ret

\* C8: TieredDatastore.put (when no tier raises) calls put on every tier in
\* order, and afterwards every tier returns the value for the key;
\* TieredDatastore.delete calls delete on every tier, and afterwards every
\* tier, and the tiered store's own get and contains, report the key absent.
C8_TieredWriteThrough ==
  (last.op \in {"put", "delete"} /\ last.raises = NumStores(pre)) =>
    LET key == last.key
        n   == NumStores(pre)
    IN  IF last.op = "put"
          THEN /\ last.calls = InOrder(n, "put", key, last.value)
               /\ \A i \in DOMAIN stores : DictGet(stores[i], key) = last.value
          ELSE /\ last.calls = InOrder(n, "delete", key, None)
               /\ \A i \in DOMAIN stores :
                    /\ DictGet(stores[i], key) = None
                    /\ ~DictContains(stores[i], key)
               /\ TieredGet(stores, key).ret = None
               /\ ~TieredContains(stores, key, 0, <<>>).ret

\* A put of a value over three tiers that all lacked the key.
C8_Witness ==
  /\ last.op = "put"
  /\ last.raises = NumStores(pre)
  /\ NumStores(pre) = 3
  /\ last.value # None
  /\ \A i \in DOMAIN pre : DictGet(pre[i], last.key) = None
  /\ \A i \in DOMAIN stores : DictGet(stores[i], last.key) = last.value

\* C9: TieredDatastore.contains returns true exactly when some tier contains
\* the key; it asks the tiers in order up to the first that does and no tier
\* after it; it calls no put and no delete, so what every tier reports for
\* every key is as before.
C9_TieredContainsNoPromotion ==
  last.op = "contains" =>
    LET key     == last.key
        n       == NumStores(pre)
        holders == {i \in DOMAIN pre : DictContains(pre[i], key)}
        h       == IF holders = {} THEN n - 1 ELSE MinOf(holders)
    IN  /\ last.ret = (holders # {})
        /\ last.calls = InOrder(h + 1, "contains", key, None)
        /\ \A j \in DOMAIN stores : Content(stores[j]) = Content(pre[j])
        /\ \A j \in (h + 1)..(n - 1) : stores[j] = pre[j]

\* contains found the key in the last of three tiers only; the first two
\* still lack it.
C9_Witness ==
  /\ last.op = "contains"
  /\ NumStores(pre) = 3
  /\ last.ret
  /\ ~DictContains(stores[0], last.key)
  /\ ~DictContains(stores[1], last.key)
  /\ DictContains(stores[2], last.key)

\* C10: when the put or delete of tier j raises during TieredDatastore.put or
\* delete, the call raises, the tiers before j keep the write that was
\* applied to them, and the tiers after j are neither called nor changed.
C10_TieredPartialFailure ==
  (last.op \in {"put", "delete"} /\ last.raises < NumStores(pre)) =>
    LET key == last.key
        j   == last.raises
    IN  /\ last.raised
        /\ \A i \in 0..(j - 1) :
             stores[i] = IF last.op = "put"
                           THEN DictPut(pre[i], key, last.value)
                           ELSE DictDelete(pre[i], key)
        /\ \A i \in (j + 1)..(NumStores(pre) - 1) : stores[i] = pre[i]
        /\ \A c \in 1..Len(last.calls) : last.calls[c].store <= j

\* A delete over three tiers that all held the key, raising at the second:
\* the first has lost the key, the third still holds it.
C10_Witness ==
  /\ last.op = "delete"
  /\ NumStores(pre) = 3
  /\ last.raises = 1
  /\ last.raised
  /\ \A i \in DOMAIN pre : DictGet(pre[i], last.key) # None
  /\ DictGet(stores[0], last.key) = None
  /\ DictGet(stores[2], last.key) # None

(***************************************************************************)
(* Properties of ShardedDatastore's key-value calls, under SpecSharded.    *)
(***************************************************************************)
\* C6: with a fixed list of N >= 1 shards, shard(k) gives one and the same
\* index in 0..N-1 on every call, and get(k) returns the value of the latest
\* put(k, v) that no delete(k) followed (None when there is none).
C6_ShardedReadsLatestPut ==
  /\ \A k \in Keys :
       /\ shardseen[k] \subseteq 0..(NumStores(stores) - 1)
       /\ Cardinality(shardseen[k]) <= 1
       /\ ShardedGet(stores, k).ret = written[k]
  /\ last.op = "get" => last.ret = written[last.key]

\* A get over three shards that returned a stored value, with all three keys
\* stored.
C6_Witness ==
  /\ last.op = "get"
  /\ NumStores(stores) = 3
  /\ last.ret # None
  /\ \A k \in Keys : written[k] # None /\ Cardinality(shardseen[k]) = 1

\* C7: get, put, delete and contains on key k call the shard at index
\* shardingfn(k) mod N and no other, and leave every other shard as it was;
\* so no key is ever present in a shard other than the one at that index.
C7_ShardedSingleShard ==
  /\ last.op \in {"get", "put", "delete", "contains"} =>
       LET i == ShardingFn(last.key) % NumStores(pre)
       IN  /\ Len(last.calls) = 1
           /\ last.calls[1] = Call(i, last.op, last.key, last.value)
           /\ \A j \in DOMAIN stores \ {i} : stores[j] = pre[j]
  /\ \A k \in Keys : \A j \in DOMAIN stores :
       DictContains(stores[j], k) => j = ShardingFn(k) % NumStores(stores)

\* A put over three shards, with keys stored in two different shards.
C7_Witness ==
  /\ last.op = "put"
  /\ last.value # None
  /\ NumStores(stores) = 3
  /\ stores # pre
  /\ \E j1, j2 \in DOMAIN stores :
       /\ j1 # j2
       /\ DictContains(stores[j1], "a:x")
       /\ DictContains(stores[j2], "a:y")

(***************************************************************************)
(* Properties of ShardedDatastore.query, checked under SpecQuery.          *)
(***************************************************************************)
\* C2: a query with a limit L yields at most L items in all, whatever the
\* number of shards, the items each holds and the offset (counting what an
\* ordered query has materialized and what the caller has pulled).
C2_AtMostLimit ==
  query.limited => Len(out) + Len(sorted) <= query.limit

\* A finished query with offset 1 and limit 2 over shards of two items each:
\* both items came out, one from each of the first two shards.
C2_Witness ==
  /\ query.limited /\ query.limit = 2 /\ query.offset = 1 /\ ~query.order
  /\ NumStores(stores) >= 2
  /\ \A s \in DOMAIN stores : Len(DictQuery(stores[s], QueryKey)) = 2
  /\ gen.pc = "done"
  /\ out = <<ItemAt(0, 2), ItemAt(1, 1)>>

\* C3: shard 0 is queried with the caller's offset and limit; the query run
\* against the next shard carries the previous shard's offset less its
\* cursor's skipped count and, when a limit is set, the previous limit less
\* the cursor's returned count, both floored at 0; neither is ever negative.
C3_ForwardedOffsetLimit ==
  /\ Len(exhausted) <= Len(queried)
  /\ Len(queried) <= Len(exhausted) + 1
  /\ \A i \in 1..Len(queried) :
       LET qi == queried[i]
       IN  /\ qi.offset >= 0
           /\ qi.limit >= 0
           /\ qi.limited = query.limited
           /\ IF i = 1
                THEN /\ qi.shard = 0
                     /\ qi.offset = query.offset
                     /\ qi.limit = query.limit
                ELSE LET p == queried[i - 1]
                         e == exhausted[i - 1]
                     IN  /\ e.shard = p.shard
                         /\ qi.shard = p.shard + 1
                         /\ qi.offset = Max(p.offset - e.skipped, 0)
                         /\ qi.limited =>
                              qi.limit = Max(p.limit - e.returned, 0)

\* Three shards queried: the second with a smaller offset than the first,
\* the third with a smaller, still positive limit than the second.
C3_Witness ==
  /\ Len(queried) = 3
  /\ query.limited
  /\ queried[2].offset < queried[1].offset
  /\ queried[2].offset > 0
  /\ queried[3].limit < queried[2].limit
  /\ queried[3].limit > 0

\* C4: for every query with a limit (0 included), once the limit that
\* remains after a shard's cursor has run dry is 0, no later shard is queried.
C4_StopsWhenLimitUsedUp ==
  query.limited =>
    \A i \in 1..Len(exhausted) :
      Max(queried[i].limit - exhausted[i].returned, 0) = 0 => Len(queried) <= i

\* The pages of the shards queried so far: what each shard's cursor hands
\* out for the offset and limit it was given, and for the cursor still
\* running, what it has handed out up to now.
PageOf(i) ==
  LET q     == queried[i]
      items == DictQuery(stores[q.shard], q.key)
      from  == Min(q.offset, Len(items))
      to    == IF q.limited THEN Min(from + q.limit, Len(items)) ELSE Len(items)
      page  == SubSeq(items, from + 1, to)
  IN  IF i <= Len(exhausted) THEN page ELSE SubSeq(page, 1, gen.returned)

RECURSIVE PagesUpTo(_)
PagesUpTo(i) == IF i = 0 THEN <<>> ELSE PagesUpTo(i - 1) \o PageOf(i)

\* C5: a query without an order directive queries no shard before the caller
\* pulls, materializes nothing, visits the shards in collection order, queries
\* a shard only once the cursor of the one before has run dry, and hands out
\* the items of shard 0's cursor, then those of shard 1's, and so on.
C5_LazyConcatenation ==
  (gen.pc # "none" /\ ~query.order) =>
    /\ sorted = <<>>
    /\ gen.pc = "created" => (queried = <<>> /\ out = <<>>)
    /\ \A i \in 1..Len(queried) : queried[i].shard = i - 1
    /\ \A i \in 1..Len(exhausted) : exhausted[i].shard = i - 1
    /\ Len(exhausted) <= Len(queried)
    /\ Len(queried) <= Len(exhausted) + 1
    /\ gen.pc = "yielded" => Len(queried) = Len(exhausted) + 1
    /\ out = PagesUpTo(Len(queried))

\* The caller is in the middle of the second shard's items, having had both
\* items of the first.
C5_Witness ==
  /\ ~query.order
  /\ gen.pc = "yielded"
  /\ Len(queried) = 2
  /\ out = <<ItemAt(0, 1), ItemAt(0, 2), ItemAt(1, 1)>>
  /\ Len(DictQuery(stores[1], QueryKey)) = 2


(***************************************************************************)
(* Properties of TieredDatastore.query, checked under SpecTieredQuery.     *)
(***************************************************************************)
\* The elements of a sequence.
Range(seq) == {seq[j] : j \in DOMAIN seq}

\* The items at the positions offset+1 .. offset+limit of `items`.
Page(items, q) ==
  LET hi == IF q.limited THEN Min(q.offset + q.limit, Len(items)) ELSE Len(items)
  IN  [j \in 1..Max(hi - q.offset, 0) |-> items[q.offset + j]]

\* C11: TieredDatastore.query(q) gives exactly what query(q) on the last tier
\* gives: the last tier is the only tier queried, an item held only by an
\* earlier tier is not in the result, and no tier is changed by the query.
C11_TieredQueryLastTier ==
  last.op = "query" =>
    LET q     == last.value
        n     == NumStores(pre)
        items == DictQuery(pre[n - 1], q.key)
        seq   == IF q.order THEN SortSeq(items, LAMBDA a, b : a < b) ELSE items
    IN  /\ last.calls = <<Call(n - 1, "query", q.key, None)>>
        /\ last.ret = Page(seq, q)
        /\ Range(last.ret) \subseteq Range(items)
        /\ \A i \in 0..(n - 2) :
             Range(DictQuery(pre[i], q.key)) \cap Range(last.ret) = {}
        /\ stores = pre

C11_Witness ==
  /\ last.op = "query"
  /\ NumStores(pre) = 3
  /\ Len(DictQuery(pre[0], QueryKey)) = 2
  /\ Len(DictQuery(pre[1], QueryKey)) = 1
  /\ Len(DictQuery(pre[2], QueryKey)) = 2
  /\ last.value.offset = 1
  /\ last.ret = <<ItemAt(2, 2)>>

(***************************************************************************)
(* Properties of DictDatastore, checked on the shards of SpecSharded.      *)
(***************************************************************************)
\* No store holds None as a value.
NoneNotStored ==
  \A i \in DOMAIN stores : \A c \in DOMAIN stores[i] :
    \A k \in DOMAIN stores[i][c] : stores[i][c][k] # None

\* C12: put(k, None) is a deletion.  On a DictDatastore, and on a tiered or a
\* sharded store over DictDatastores, it leaves the state that delete(k)
\* leaves, get(k) then returns None and contains(k) is false; no store ever
\* holds None as a value.
C12_PutNoneIsDelete ==
  LET n == NumStores(stores)
  IN  /\ \A k \in Keys :
           /\ \A i \in DOMAIN stores :
                LET d == DictPut(stores[i], k, None)
                IN  /\ d = DictDelete(stores[i], k)
                    /\ DictGet(d, k) = None
                    /\ ~DictContains(d, k)
           /\ LET t == TieredPut(stores, k, None, n, 0, <<>>).stores
              IN  /\ t = TieredDelete(stores, k, n, 0, <<>>).stores
                  /\ TieredGet(t, k).ret = None
                  /\ ~TieredContains(t, k, 0, <<>>).ret
           /\ LET s == ShardedPut(stores, k, None).stores
              IN  /\ s = ShardedDelete(stores, k).stores
                  /\ ShardedGet(s, k).ret = None
                  /\ ~ShardedContains(s, k).ret
      /\ (last.op = "put" /\ last.value = None) =>
           /\ stores = ShardedDelete(pre, last.key).stores
           /\ ShardedGet(stores, last.key).ret = None
           /\ ~ShardedContains(stores, last.key).ret
      /\ NoneNotStored

C12_Witness ==
  /\ last.op = "put"
  /\ last.value = None
  /\ last.key = "a:x"
  /\ NumStores(stores) = 1
  /\ DictGet(pre[0], "a:x") = "v1"
  /\ DictGet(pre[0], "a:y") = "v2"
  /\ DictGet(stores[0], "a:y") = "v2"
  /\ stores # pre

\* C13: DictDatastore.delete(k) for a key that is not stored raises nothing
\* and changes nothing: the store, the set of its namespace collections
\* included, is as it was before the call.  The same holds for get(k) and
\* contains(k) on a key that is not stored, which report that it is absent.
C13_MissingKeyNoOp ==
  \A i \in DOMAIN pre :
    (/\ last.op \in {"delete", "get", "contains"}
     /\ last.calls = <<Call(i, last.op, last.key, None)>>
     /\ last.key \notin DOMAIN Collection(pre[i], last.key)[KeyPath(last.key)])
    => /\ ~last.raised
       /\ last.op = "get" => last.ret = None
       /\ last.op = "contains" => last.ret = FALSE
       /\ stores[i] = pre[i]
       /\ DOMAIN stores[i] = DOMAIN pre[i]

(***************************************************************************)
(* Properties of the Query objects, checked under SpecQuery.               *)
(***************************************************************************)
\* C14: KeyTransformDatastore.query and ShardedDatastore.query work on a copy
\* of the caller's Query: from the call on, and so once the returned cursor
\* is consumed, the caller's Query has the key, offset and limit it was
\* called with, whatever was assigned to the forwarded copy.
C14_CallerQueryUnchanged ==
  last.op \in {"query", "lowercase.query"} =>
    /\ query.key = last.value.key
    /\ query.offset = last.value.offset
    /\ query.limited = last.value.limited
    /\ query.limit = last.value.limit

C14_Witness ==
  /\ last.op = "lowercase.query"
  /\ gen.pc = "done"
  /\ ~query.order
  /\ query.key = "/Q"
  /\ queried[1].key = "/q"
  /\ query.offset = 2
  /\ gen.shard_query.offset = 0
  /\ query.limit = 2
  /\ gen.shard_query.limit = 0
  /\ Len(out) = 2

(***************************************************************************)
(* Properties of KeyTransformDatastore, checked under SpecTransform.       *)
(***************************************************************************)
\* C15: with transform f (here lowercaseKey) over child c, a get, put, delete
\* or contains on key k is one call on c at f(k): c changes as that call
\* changes it and at no other key, and the result is c's result at f(k).  So
\* get(k2) through the wrapper returns the value last written through it
\* under any k1 with f(k1) = f(k2), and a direct get on the child under a key
\* that is not in lower case returns None.
C15_KeyTransformActsAtTransformedKey ==
  /\ last.op \in {"get", "put", "delete", "contains"} =>
       LET fk == LowercaseKey(last.key)
       IN  /\ last.calls = <<Call(0, last.op, fk, last.value)>>
           /\ stores[0] = CASE last.op = "put" -> DictPut(pre[0], fk, last.value)
                             [] last.op = "delete" -> DictDelete(pre[0], fk)
                             [] OTHER -> Collection(pre[0], fk)
           /\ \A k \in (CaseKeys \cup DOMAIN written) \ {fk} :
                DictGet(stores[0], k) = DictGet(pre[0], k)
           /\ last.op = "get" => last.ret = DictGet(pre[0], fk)
           /\ last.op = "contains" => last.ret = DictContains(pre[0], fk)
  /\ \A k2 \in CaseKeys :
       KeyTransformGet(stores, k2).ret = written[LowercaseKey(k2)]
  /\ (last.op = "child.get" /\ last.key # LowercaseKey(last.key)) =>
       last.ret = None

C15_Witness ==
  /\ last.op = "get"
  /\ last.key = "HeLlO"
  /\ last.ret = "v1"
  /\ written["hello"] = "v1"
  /\ DictGet(stores[0], "hello") = "v1"
  /\ DictGet(stores[0], "HeLlO") = None
  /\ DictGet(stores[0], "world") = "v2"

(***************************************************************************)
(* Properties of NestedPathDatastore, checked under SpecNested.            *)
(***************************************************************************)
\* The chunks of a path: what stands between its '/' characters.
RECURSIVE SplitPath(_)
SplitPath(s) ==
  IF s = <<>>
    THEN <<>>
    ELSE LET cuts == {j \in DOMAIN s : s[j] = "/"}
         IN  IF cuts = {}
               THEN <<s>>
               ELSE LET j == MinOf(cuts)
                    IN  <<SubSeq(s, 1, j - 1)>> \o SplitPath(SubSeq(s, j + 1, Len(s)))

\* The chunks put one after the other.
RECURSIVE Flatten(_)
Flatten(chunks) ==
  IF chunks = <<>> THEN <<>> ELSE Head(chunks) \o Flatten(Tail(chunks))

\* C16: nestedPath(path, depth, length) cuts path into consecutive chunks of
\* `length` characters (the last may be shorter), keeps the first `depth`
\* chunks and joins them with '/'.  The result has at most depth chunks, and
\* the chunks one after the other are a prefix of path.  For 'abcdefghijk'
\* it is 'ab/cd/ef' for (3,2), 'ab/cd/ef/gh' for (4,2), 'abcd/efgh/ijk' for
\* (3,4), 'abcd' for (1,4) and 'abcdefghij/k' for (3,10).
C16_NestedPathChunks ==
  last.op = "nestedPath" =>
    LET path   == last.key
        depth  == last.value[1]
        length == last.value[2]
        chunks == SplitPath(last.ret)
        flat   == Flatten(chunks)
        whole  == (Len(path) + length - 1) \div length
    IN  /\ Len(chunks) = Min(depth, whole)
        /\ Len(chunks) <= depth
        /\ \A i \in 1..(Len(chunks) - 1) : Len(chunks[i]) = length
        /\ \A i \in DOMAIN chunks : Len(chunks[i]) \in 1..length
        /\ Len(flat) <= Len(path)
        /\ flat = SubSeq(path, 1, Len(flat))
        /\ Len(flat) = Min(depth * length, Len(path))
        /\ path = Text(11) =>
             /\ (depth = 3 /\ length = 2) =>
                  last.ret = <<"a", "b", "/", "c", "d", "/", "e", "f">>
             /\ (depth = 4 /\ length = 2) =>
                  last.ret = <<"a", "b", "/", "c", "d", "/", "e", "f", "/",
                               "g", "h">>
             /\ (depth = 3 /\ length = 4) =>
                  last.ret = <<"a", "b", "c", "d", "/", "e", "f", "g", "h",
                               "/", "i", "j", "k">>
             /\ (depth = 1 /\ length = 4) =>
                  last.ret = <<"a", "b", "c", "d">>
             /\ (depth = 3 /\ length = 10) =>
                  last.ret = <<"a", "b", "c", "d", "e", "f", "g", "h", "i",
                               "j", "/", "k">>

C16_Witness ==
  /\ last.op = "nestedPath"
  /\ last.key = Text(11)
  /\ last.value = <<3, 4>>
  /\ Len(SplitPath(last.ret)) = 3
  /\ Len(SplitPath(last.ret)[3]) = 3

\* C17: nestKey, for a key with a non-empty name and depth, length >= 1,
\* repeats the name often enough to cover depth*length characters: the
\* prefix put in front of the key has exactly `depth` chunks of exactly
\* `length` characters, which are the first depth*length characters of the
\* repeated name.  With depth 3 and length 2, 'abc' goes to /ab/ca/bc/abc
\* and 'abcdefghijk' to /ab/cd/ef/abcdefghijk.
C17_NestKeyFullPrefix ==
  last.op = "nestKey" =>
    LET name   == last.key
        depth  == last.value[1]
        length == last.value[2]
        chunks == SplitPath(Tail(last.ret))
        prefix == SubSeq(chunks, 1, Len(chunks) - 1)
        flat   == Flatten(prefix)
    IN  /\ Head(last.ret) = "/"
        /\ Len(chunks) = depth + 1
        /\ chunks[depth + 1] = name
        /\ \A i \in 1..depth : Len(chunks[i]) = length
        /\ Len(flat) = depth * length
        /\ \A j \in 1..(depth * length) :
             flat[j] = name[((j - 1) % Len(name)) + 1]
        /\ (depth = 3 /\ length = 2) =>
             /\ name = Text(3) =>
                  last.ret = <<"/", "a", "b", "/", "c", "a", "/", "b", "c",
                               "/", "a", "b", "c">>
             /\ name = Text(11) =>
                  last.ret = <<"/", "a", "b", "/", "c", "d", "/", "e", "f",
                               "/">> \o Text(11)

C17_Witness ==
  /\ last.op = "nestKey"
  /\ last.key = Text(3)
  /\ last.value = <<4, 10>>
  /\ Len(last.ret) = 1 + 40 + 3 + 1 + 3

(***************************************************************************)
(* Properties of DatastoreCollection, checked under SpecCollection.        *)
(***************************************************************************)
\* C18: the constructor, appendDatastore and insertDatastore raise a type
\* error exactly when they are given an element that is not a Datastore; a
\* call that raised leaves every child list as it was (and a constructor
\* that raised has built nothing), so every element of every child list is
\* a Datastore, whatever constructions, appends, inserts and removes were
\* made.
C18_OnlyDatastores ==
  /\ \A inst \in Instances : colls[inst] # None =>
       \A j \in DOMAIN lists[colls[inst]] :
         IsDatastore(lists[colls[inst]][j])
  /\ last.op = "__init__" =>
       /\ last.raised <=>
            (/\ last.value.given
             /\ \E j \in DOMAIN last.value.elements :
                  last.value.elements[j] \notin Datastores)
       /\ last.raised => (lists = pre /\ colls[last.key] = None)
       /\ ~last.raised => colls[last.key] # None
  /\ last.op = "appendDatastore" =>
       /\ last.raised <=> last.value[1] \notin Datastores
       /\ last.raised => lists = pre
       /\ ~last.raised =>
            lists[colls[last.key]] = Append(pre[colls[last.key]], last.value[1])
  /\ last.op = "insertDatastore" =>
       /\ last.raised <=> last.value[2] \notin Datastores
       /\ last.raised => lists = pre
       /\ ~last.raised =>
            /\ Len(lists[colls[last.key]]) = Len(pre[colls[last.key]]) + 1
            /\ last.value[2] \in Range(lists[colls[last.key]])

C18_Witness ==
  /\ last.op = "insertDatastore"
  /\ last.value = <<0, "x">>
  /\ last.raised
  /\ colls["A"] = "A"
  /\ last.key = "A"
  /\ lists["A"] = <<"d2", "d1">>
  /\ pre = lists

(***************************************************************************)
(* Properties of ordered and of paginated sharded queries, checked under   *)
(* SpecQuery.                                                              *)
(***************************************************************************)
\* The sequence is in ascending order.
Ascending(seq) == \A i \in 1..(Len(seq) - 1) : seq[i] <= seq[i + 1]

\* C19: when the query has an order directive, by the time query returns
\* the generator has run to its end, the cursor of every shard it visited is
\* consumed (its counters are those of its whole page), and the items of
\* those pages are held sorted, so what the caller pulls is in order; when
\* the query has none, nothing is queried or held before the first pull.
C19_OrderedQueryMaterializes ==
  /\ (gen.pc # "none" /\ query.order) =>
       LET all == out \o sorted
       IN  /\ gen.pc = "done"
           /\ Len(exhausted) = Len(queried)
           /\ \A i \in 1..Len(queried) :
                LET items == DictQuery(stores[queried[i].shard], queried[i].key)
                IN  /\ exhausted[i].shard = queried[i].shard
                    /\ exhausted[i].skipped = Min(queried[i].offset, Len(items))
                    /\ exhausted[i].returned = Len(PageOf(i))
           /\ Ascending(all)
           /\ Len(all) = Len(PagesUpTo(Len(queried)))
           /\ Range(all) = Range(PagesUpTo(Len(queried)))
  /\ (gen.pc # "none" /\ ~query.order /\ out = <<>> /\ gen.pc = "created") =>
       (queried = <<>> /\ exhausted = <<>> /\ sorted = <<>>)
  /\ (gen.pc # "none" /\ ~query.order) => sorted = <<>>

C19_Witness ==
  /\ query.order
  /\ NumStores(stores) = 2
  /\ Len(queried) = 2
  /\ query.offset = 0
  /\ ~query.limited
  /\ out = <<ItemAt(0, 1), ItemAt(1, 1)>>
  /\ sorted = <<ItemAt(0, 2), ItemAt(1, 2)>>

\* The matching items of the shards 0..(n - 1), one shard after the other.
RECURSIVE Concatenation(_)
Concatenation(n) ==
  IF n = 0 THEN <<>>
           ELSE Concatenation(n - 1) \o DictQuery(stores[n - 1], QueryKey)

\* The sum of the skipped counters of the first i exhausted cursors.
RECURSIVE SkippedUpTo(_)
SkippedUpTo(i) ==
  IF i = 0 THEN 0 ELSE SkippedUpTo(i - 1) + exhausted[i].skipped

\* C20: a query without order directive, with offset O and limit L or none,
\* over shards that hold T items in all: once its cursor is consumed, the
\* items handed out are those at the positions O .. O+L-1 (to the end when
\* there is no limit) of the shards' items put one shard after the other, so
\* min(L, max(T - O, 0)) of them (max(T - O, 0) without limit), and the
\* skipped counters of the visited shards add up to min(O, T).
C20_CrossShardPagination ==
  (gen.pc = "done" /\ ~query.order) =>
    LET all == Concatenation(NumStores(stores))
        T   == Len(all)
        O   == last.value.offset
        L   == last.value.limit
    IN  /\ Len(out) = IF last.value.limited THEN Min(L, Max(T - O, 0))
                                            ELSE Max(T - O, 0)
        /\ \A j \in 1..Len(out) : out[j] = all[O + j]
        /\ Len(exhausted) = Len(queried)
        /\ SkippedUpTo(Len(exhausted)) = Min(O, T)

C20_Witness ==
  /\ gen.pc = "done"
  /\ ~query.order
  /\ last.value.offset = 2
  /\ last.value.limited
  /\ last.value.limit = 2
  /\ Len(queried) = 3
  /\ exhausted[1].skipped = 1
  /\ exhausted[2].skipped = 1
  /\ out = <<ItemAt(1, 2), ItemAt(2, 1)>>

\* C21: a query with an order directive, offset O and limit L (or none) hands
\* out what the same query gives on one store holding the items of all the
\* shards: the items at the positions O .. O+L-1 of all the items sorted.
C21_OrderedPageIsGlobal ==
  (gen.pc # "none" /\ query.order) =>
    out \o sorted =
      Page(SortSeq(Concatenation(NumStores(stores)), LAMBDA a, b : a < b),
           last.value)

(***************************************************************************)
(* Properties of the tiers taken together, checked under SpecAgreement.    *)
(***************************************************************************)
\* C22: tiers that are DictDatastores, start with the same contents and are
\* changed only through the tiered store hold the same key-to-value mapping
\* (and the same items under the query key) after any calls of get, put,
\* delete, contains and query, and the tiered get(k) is the last tier's
\* get(k) for every key k.
C22_TiersAgree ==
  /\ \A i \in DOMAIN stores : \A j \in DOMAIN stores :
       /\ Content(stores[i]) = Content(stores[j])
       /\ DictQuery(stores[i], QueryKey) = DictQuery(stores[j], QueryKey)
  /\ \A k \in Keys :
       TieredGet(stores, k).ret = DictGet(stores[NumStores(stores) - 1], k)

C22_Witness ==
  /\ NumStores(stores) = 3
  /\ last.op = "delete"
  /\ last.key = "a:y"
  /\ DictGet(pre[2], "a:y") = "v2"
  /\ \A i \in DOMAIN stores :
       /\ DictGet(stores[i], "a:y") = None
       /\ DictGet(stores[i], "a:x") = "v1"
       /\ DictGet(stores[i], "b:z") = "v2"
       /\ Len(DictQuery(stores[i], QueryKey)) = 2

(***************************************************************************)
(* Independence of the child lists, checked under SpecCollection.          *)
(***************************************************************************)
\* C23: when two collections were both constructed without a `stores`
\* argument, an appendDatastore, insertDatastore or removeDatastore on one of
\* them leaves the child list of the other as it was.
C23_ChildListsIndependent ==
  \A a \in Instances : \A b \in Instances \ {a} :
    (/\ last.op \in {"appendDatastore", "insertDatastore", "removeDatastore"}
     /\ last.key = a
     /\ colls[a] = "default"
     /\ colls[b] = "default")
    => lists[colls[b]] = pre[colls[b]]

=============================================================================
